---- MODULE Spec2Model ----
(***************************************************************************)
(* State machine of seplos/influxdb_manager.py, class InfluxDBManager:     *)
(* connection handling, lazy reconnect with exponential backoff, per-key   *)
(* rate limiting and the publish-on-change filter.                         *)
(*                                                                         *)
(* Time is the value of time.time() in whole seconds.  A public method is  *)
(* one action: it runs at the instant `now`; the clock advances between    *)
(* calls (Tick).  The InfluxDB server and the influxdb_client library are  *)
(* the environment: storeUp says whether a health check passes, libOk      *)
(* whether `from influxdb_client import ...` succeeds; a store write may   *)
(* raise or not at any time.                                               *)
(***************************************************************************)
EXTENDS Integers, FiniteSets, Sequences, TLC

VARIABLES
    enabled,                \* self.enabled
    connected,              \* self.connected
    client,                 \* self.client:    "None" | "open" | "closed" (close() called)
    write_api,              \* self.write_api: "None" | "open" | "closed" (close() called)
    last_write_time,        \* self.last_write_time: dict key -> time
    last_values,            \* self.last_values: dict key -> dict field -> number
    publish_mode,           \* self.publish_mode: "all" | "changed"
    reconnect_attempts,     \* self.reconnect_attempts
    reconnect_delay,        \* self.reconnect_delay
    last_reconnect_attempt, \* self.last_reconnect_attempt
    writes_total,           \* self.writes_total
    writes_failed,          \* self.writes_failed
    last_successful_write,  \* self.last_successful_write
    reconnect_count,        \* self.reconnect_count
    now,                    \* time.time()
    storeUp,                \* environment: client.health() reports "pass"
    libOk,                  \* environment: influxdb_client can be imported
    last,                   \* history: the last operation and what it did
    submitted,              \* history: per key, the numeric set of the last write call
                            \*          and whether _should_write compared it
    sent,                   \* history: per key, the time of the last write_api.write call
    store_ok,               \* history: number of write_api.write calls that returned
    chain,                  \* history: reconnect attempts in a row, none successful,
                            \*          each at most max_reconnect_delay after the one before
    thread,                 \* per producer thread: where it is inside a write call and
                            \*          the call's arguments and locals
    boot                    \* __init__ in progress: where it is, the locals attempt and
                            \*          delay of _setup_client_with_retry, whether url and
                            \*          token are set, and (history) the sleeps made and
                            \*          the handles replaced without being closed

vars == <<enabled, connected, client, write_api, last_write_time, last_values,
          publish_mode, reconnect_attempts, reconnect_delay, last_reconnect_attempt,
          writes_total, writes_failed, last_successful_write, reconnect_count,
          now, storeUp, libOk, last, submitted, sent, store_ok, chain, thread, boot>>

progVars == <<enabled, connected, client, write_api, last_write_time, last_values,
              publish_mode, reconnect_attempts, reconnect_delay, last_reconnect_attempt,
              writes_total, writes_failed, last_successful_write, reconnect_count>>

-----------------------------------------------------------------------------
(* Program constants *)

max_reconnect_attempts == 10
max_reconnect_delay == 300
initial_reconnect_delay == 5
write_interval == 5
RETRY_MAX_ATTEMPTS == 10
RETRY_INITIAL_DELAY == 2
RETRY_MAX_DELAY == 60
RETRY_BACKOFF_FACTOR == 2

(* Bounds of the model *)

StartTime == 1000       \* time.time() when construction returns
BootTime == 100         \* SpecStartup: time.time() when construction starts
GateHorizon == 8        \* Spec: seconds of clock after StartTime
BackoffHorizon == 3100  \* SpecBackoff: seconds of clock after StartTime
MaxWrites == 2          \* write calls are issued while writes_total < MaxWrites

RecoverHorizon == 3900 \* SpecRecover: seconds of clock after StartTime

GateSteps == {4, 5}
RecoverSteps == {300, 600}
BackoffSteps == {150, 300, 305}

Min(a, b) == IF a < b THEN a ELSE b

-----------------------------------------------------------------------------
(* Inputs *)

BatteryIds == {1}
Keys == {"battery_1", "pack"}

\* line 202: key = f"battery_{battery_id}"
BatteryKey(battery_id) == "battery_" \o ToString(battery_id)

\* A measurement value: a number, a string or None.
Num(n) == <<"num", n>>
Str == <<"str", 0>>
NoneVal == <<"none", 0>>

\* dict literals over the two fields the model submits
Dict1(f, v) == [x \in {f} |-> v]
Dict2(f, v, g, w) == [x \in {f, g} |-> IF x = f THEN v ELSE w]
EmptyDict == [x \in {} |-> 0]

BatteryData ==
    { Dict1("status", Str),
      Dict2("soc", Num(80), "status", Str),
      Dict2("soc", Num(81), "cycles", NoneVal),
      Dict2("soc", Num(80), "cycles", Num(7)) }

PackData == { Dict1("soc", Num(80)) }

SingleData == { Dict1("soc", Num(80)) }

Threads == {"t1", "t2"}

\* a thread outside any call
Idle == [ pc |-> "idle", key |-> "", data |-> EmptyDict, rt |-> 0, ct |-> 0,
          tried |-> FALSE, reset |-> FALSE, fresh |-> FALSE ]

-----------------------------------------------------------------------------
(* Connection state, as a record the methods transform *)

Conn ==
    [ enabled |-> enabled, connected |-> connected,
      client |-> client, write_api |-> write_api,
      reconnect_attempts |-> reconnect_attempts,
      reconnect_delay |-> reconnect_delay,
      last_reconnect_attempt |-> last_reconnect_attempt,
      reconnect_count |-> reconnect_count ]

\* What _setup_client can meet: the import fails; the client constructor
\* raises; the health check raises or reports a failure; the check passes.
SetupOutcomes ==
    IF ~libOk THEN {"import_error"}
    ELSE IF storeUp THEN {"pass"}
    ELSE {"ctor_error", "health_fail"}

\* a pass that leaves the attempt counter and the delay as they were
setup_client_NoReset(c, out) ==
    IF out = "import_error" THEN [c EXCEPT !.enabled = FALSE]
    ELSE IF out = "ctor_error" THEN [c EXCEPT !.connected = FALSE]
    ELSE IF out = "pass"
         THEN [c EXCEPT !.client = "open", !.write_api = "open",
                        !.connected = TRUE]
         ELSE [c EXCEPT !.client = "open", !.write_api = "open",
                        !.connected = FALSE]

\* _setup_client
setup_client(c, out) ==
    IF out = "import_error" THEN [c EXCEPT !.enabled = FALSE]
    ELSE IF out = "ctor_error" THEN [c EXCEPT !.connected = FALSE]
    ELSE IF out = "pass"
         THEN [c EXCEPT !.client = "open", !.write_api = "open",
                        !.connected = TRUE,
                        !.reconnect_attempts = 0,
                        !.reconnect_delay = initial_reconnect_delay]
         ELSE [c EXCEPT !.client = "open", !.write_api = "open",
                        !.connected = FALSE]

\* the test made against the initial delay instead of the current one
BackoffPending_FloorOnly(c, t) ==
    t - c.last_reconnect_attempt < initial_reconnect_delay

\* line 126: not enough time since the last attempt
BackoffPending(c, t) == t - c.last_reconnect_attempt < c.reconnect_delay

\* > for >= at line 129
AttemptsExhausted_OffByOne(c) == c.reconnect_attempts > max_reconnect_attempts

\* line 129
AttemptsExhausted(c) == c.reconnect_attempts >= max_reconnect_attempts

\* an exhausted episode that is never reset
EpisodeGapElapsed_Never(c, t) == FALSE

\* line 131
EpisodeGapElapsed(c, t) == t - c.last_reconnect_attempt > max_reconnect_delay

\* the doubling without the cap
NextDelay_Uncapped(d) == d * 2

\* line 164
NextDelay(d) == Min(d * 2, max_reconnect_delay)

\* handle.close() inside try/except, on a handle that exists: whether it
\* returns or raises (the exception is logged and dropped), the field keeps
\* the handle, now one that close() was called on
Closed(h) == IF h = "None" THEN h ELSE "closed"

\* _try_reconnect passes its two guards and makes an attempt
ReconnectAllowed(c, t) ==
    /\ ~BackoffPending(c, t)
    /\ AttemptsExhausted(c) => EpisodeGapElapsed(c, t)

try_reconnect(c, t, out) ==
    IF ~ReconnectAllowed(c, t) THEN c
    ELSE LET c1 == IF AttemptsExhausted(c)
                   THEN [c EXCEPT !.reconnect_attempts = 0,
                                  !.reconnect_delay = initial_reconnect_delay]
                   ELSE c
             c2 == [c1 EXCEPT !.last_reconnect_attempt = t,
                              !.reconnect_attempts = @ + 1]
             c3 == [c2 EXCEPT !.write_api = Closed(@), !.client = Closed(@)]
             c4 == setup_client(c3, out)
         IN  IF c4.connected
             THEN [c4 EXCEPT !.reconnect_count = @ + 1]
             ELSE [c4 EXCEPT !.reconnect_delay = NextDelay(@)]

\* line 169 without the test of self.enabled
NeedsReconnect_IgnoresEnabled(c) == ~c.connected

\* is_enabled: the state it leaves; its return value is Usable of that state
NeedsReconnect(c) == c.enabled /\ ~c.connected

is_enabled(c, t, out) ==
    IF NeedsReconnect(c) THEN try_reconnect(c, t, out) ELSE c

\* line 171 without the test of self.connected
Usable_EnabledOnly(c) == c.enabled

\* line 171
Usable(c) == c.enabled /\ c.connected

-----------------------------------------------------------------------------
(* Publish gate *)

\* lines 210 / 278: the numeric fields of a measurement set
IsNumeric(v) == v[1] = "num"

NumericFields(data) ==
    [f \in {g \in DOMAIN data : IsNumeric(data[g])} |-> data[f][2]]

\* the rate limit applied in "changed" mode only
RateLimited_ChangedOnly(key, t) ==
    /\ publish_mode = "changed"
    /\ key \in DOMAIN last_write_time
    /\ t - last_write_time[key] < write_interval

\* lines 205-207 / 273-275
RateLimited(key, t) ==
    /\ key \in DOMAIN last_write_time
    /\ t - last_write_time[key] < write_interval

\* == for != at line 187
Changed_EqualForUnequal(key, wd) ==
    \E field \in DOMAIN wd :
        \/ field \notin DOMAIN last_values[key]
        \/ last_values[key][field] = wd[field]

\* fields the cache lacks are skipped instead of counted as a change
Changed_CommonFieldsOnly(key, wd) ==
    \E field \in DOMAIN wd :
        /\ field \in DOMAIN last_values[key]
        /\ last_values[key][field] # wd[field]

\* lines 185-189
Changed(key, wd) ==
    \E field \in DOMAIN wd :
        \/ field \notin DOMAIN last_values[key]
        \/ last_values[key][field] # wd[field]

\* the assignment lost
Put_Dropped(d, key, value) == d

\* one slot shared by all keys
Put_Shared(d, key, value) ==
    [k \in DOMAIN d \cup {key} |-> value]

\* dict[key] = value
Put(d, key, value) ==
    [k \in DOMAIN d \cup {key} |-> IF k = key THEN value ELSE d[k]]

\* _should_write without the test of publish_mode at lines 175-176
should_write_NoModeTest(key, wd) ==
    IF key \notin DOMAIN last_values
    THEN [ret |-> TRUE, cache |-> Put(last_values, key, wd)]
    ELSE IF Changed(key, wd)
    THEN [ret |-> TRUE, cache |-> Put(last_values, key, wd)]
    ELSE [ret |-> FALSE, cache |-> last_values]

\* _should_write: ret is its return value, cache is self.last_values when
\* it returns
should_write(key, wd) ==
    IF publish_mode = "all"
    THEN [ret |-> TRUE, cache |-> last_values]
    ELSE IF key \notin DOMAIN last_values
    THEN [ret |-> TRUE, cache |-> Put(last_values, key, wd)]
    ELSE IF Changed(key, wd)
    THEN [ret |-> TRUE, cache |-> Put(last_values, key, wd)]
    ELSE [ret |-> FALSE, cache |-> last_values]

-----------------------------------------------------------------------------
(* Operations *)

NoOp == [op |-> "none", key |-> "", outcome |-> "", tried |-> FALSE, reset |-> FALSE]

Did(op) == [NoOp EXCEPT !.op = op]

\* an entry of a history variable
Note(d, key, value) ==
    [k \in DOMAIN d \cup {key} |-> IF k = key THEN value ELSE d[k]]

SetConn(c) ==
    /\ enabled' = c.enabled
    /\ connected' = c.connected
    /\ client' = c.client
    /\ write_api' = c.write_api
    /\ reconnect_attempts' = c.reconnect_attempts
    /\ reconnect_delay' = c.reconnect_delay
    /\ last_reconnect_attempt' = c.last_reconnect_attempt
    /\ reconnect_count' = c.reconnect_count

\* the history of reconnect attempts kept for the attempt cap: c is the
\* connection state before is_enabled, c1 after it
ChainAfter(c, c1, t) ==
    IF c1 # c
    THEN IF c1.connected THEN 0
         ELSE IF t - c.last_reconnect_attempt > max_reconnect_delay THEN 1
         ELSE chain + 1
    ELSE chain

\* line 215 (283)
TotalAfter(n) == n + 1

\* the time stamp taken before write_api.write is called
SuccessTimeAfter_BeforeWrite(old, t, wok) == t

\* line 257 (315): reached only when write_api.write returned
SuccessTimeAfter(old, t, wok) == IF wok THEN t ELSE old

\* the cache put back when the store write raises
CacheAfterWrite_RolledBack(old, new, wok) == IF wok THEN new ELSE old

\* lines 181 / 192 run before the store write, and the except branch
\* (259-262) does not undo them: old is last_values before _should_write,
\* new is what _should_write left
CacheAfterWrite(old, new, wok) == new

\* a count of failures in a row, cleared by a write that succeeds
FailedAfter_ClearedOnSuccess(n, wok) == IF wok THEN 0 ELSE n + 1

\* line 260 (318)
FailedAfter(n, wok) == IF wok THEN n ELSE n + 1

\* a write that raises counted as a failed reconnect attempt
ConnAfterWrite_CountsAttempt(c, wok) ==
    IF wok THEN c
    ELSE [c EXCEPT !.connected = FALSE, !.reconnect_attempts = @ + 1,
                   !.reconnect_delay = NextDelay(@)]

\* the except branch without line 261 (319)
ConnAfterWrite_StaysConnected(c, wok) == c

\* line 261 (319)
ConnAfterWrite(c, wok) == IF wok THEN c ELSE [c EXCEPT !.connected = FALSE]

\* the states is_enabled can leave, one for each thing a reconnect attempt
\* can meet
IsEnabledResults(c, t) == { is_enabled(c, t, out) : out \in SetupOutcomes }

\* write_battery_data / write_pack_data after the key is derived; wok says
\* whether write_api.write returns or raises
write_data(key, data) ==
    \E c1 \in IsEnabledResults(Conn, now) :
    LET c  == Conn
        wd == NumericFields(data)
        sw == should_write(key, wd)
        rec(outcome) == [op |-> "write", key |-> key, outcome |-> outcome,
                         tried |-> c1 # c,
                         reset |-> c1 # c /\ AttemptsExhausted(c)]
    IN  /\ chain' = ChainAfter(c, c1, now)
        /\ UNCHANGED <<publish_mode, now, storeUp, libOk, thread, boot>>
        /\ IF ~Usable(c1)
           THEN /\ SetConn(c1)
                /\ last' = rec(IF c.enabled THEN "noconn" ELSE "disabled")
                /\ submitted' = Note(submitted, key, [nset |-> wd, compared |-> FALSE])
                /\ UNCHANGED <<last_write_time, last_values, writes_total,
                               writes_failed, last_successful_write,
                               sent, store_ok>>
           ELSE IF RateLimited(key, now)
           THEN /\ SetConn(c1)
                /\ last' = rec("ratelimited")
                /\ submitted' = Note(submitted, key, [nset |-> wd, compared |-> FALSE])
                /\ UNCHANGED <<last_write_time, last_values, writes_total,
                               writes_failed, last_successful_write,
                               sent, store_ok>>
           ELSE IF ~sw.ret
           THEN /\ SetConn(c1)
                /\ last_values' = sw.cache
                /\ last' = rec("unchanged")
                /\ submitted' = Note(submitted, key, [nset |-> wd, compared |-> TRUE])
                /\ UNCHANGED <<last_write_time, writes_total,
                               writes_failed, last_successful_write,
                               sent, store_ok>>
           ELSE \E wok \in BOOLEAN :
                /\ last_values' = CacheAfterWrite(last_values, sw.cache, wok)
                /\ last_write_time' = Put(last_write_time, key, now)
                /\ writes_total' = TotalAfter(writes_total)
                /\ last_successful_write' =
                       SuccessTimeAfter(last_successful_write, now, wok)
                /\ writes_failed' = FailedAfter(writes_failed, wok)
                /\ SetConn(ConnAfterWrite(c1, wok))
                /\ last' = rec(IF wok THEN "ok" ELSE "fail")
                /\ submitted' = Note(submitted, key, [nset |-> wd, compared |-> TRUE])
                /\ sent' = Note(sent, key, now)
                /\ store_ok' = IF wok THEN store_ok + 1 ELSE store_ok

write_battery_data(battery_id, data) ==
    /\ writes_total < MaxWrites
    /\ write_data(BatteryKey(battery_id), data)

write_pack_data(data) ==
    /\ writes_total < MaxWrites
    /\ write_data("pack", data)

\* close without line 346
close_conn_StaysConnected(c) ==
    [c EXCEPT !.write_api = Closed(@), !.client = Closed(@)]

\* lines 336-346: what close does to the connection state
close_conn(c) ==
    [c EXCEPT !.write_api = Closed(@), !.client = Closed(@),
              !.connected = FALSE]

close ==
    /\ SetConn(close_conn(Conn))
    /\ last' = Did("close")
    /\ UNCHANGED <<last_write_time, last_values, publish_mode,
                   writes_total, writes_failed, last_successful_write,
                   now, storeUp, libOk, submitted, sent,
                   store_ok, chain, thread, boot>>

\* get_stats: the snapshot it returns
get_stats ==
    [ connected |-> connected, writes_total |-> writes_total,
      writes_failed |-> writes_failed,
      last_successful_write |-> last_successful_write,
      reconnect_attempts |-> reconnect_attempts,
      reconnect_count |-> reconnect_count, publish_mode |-> publish_mode ]

(* Environment *)

Tick(d, horizon) ==
    /\ now + d <= StartTime + horizon
    /\ now' = now + d
    /\ last' = NoOp
    /\ UNCHANGED <<progVars, storeUp, libOk, submitted, sent, store_ok, chain, thread, boot>>

StoreFlips ==
    /\ storeUp' = ~storeUp
    /\ last' = NoOp
    /\ UNCHANGED <<progVars, now, libOk, submitted, sent, store_ok, chain, thread, boot>>

\* the server comes back and stays
StoreRecovers ==
    /\ ~storeUp
    /\ storeUp' = TRUE
    /\ last' = NoOp
    /\ UNCHANGED <<progVars, now, libOk, submitted, sent, store_ok, chain, thread, boot>>

-----------------------------------------------------------------------------
(* The states construction can leave (__init__, lines 28-59):               *)
(*  - disabled by configuration, or by an ImportError of the first startup  *)
(*    attempt: enabled = FALSE, no handle;                                  *)
(*  - url or token missing: startup skipped, enabled, not connected;        *)
(*  - a startup attempt passed: connected, both handles open;               *)
(*  - every startup attempt failed: enabled, not connected, the handles of  *)
(*    the last attempt (none when the constructor raised each time).        *)

Constructed ==
    { <<FALSE, FALSE, "None", TRUE>>, <<FALSE, FALSE, "None", FALSE>>,
      <<TRUE, FALSE, "None", TRUE>>,  <<TRUE, FALSE, "None", FALSE>>,
      <<TRUE, TRUE, "open", TRUE>>,
      <<TRUE, FALSE, "open", TRUE>> }

\* construction has returned
Booted ==
    [ pc |-> "done", creds |-> TRUE, attempt |-> 0,
      delay |-> RETRY_INITIAL_DELAY, slept |-> <<>>, exit |-> "returned",
      leaked |-> 0 ]

Init ==
    /\ boot = Booted
    /\ \E s \in Constructed :
          /\ enabled = s[1]
          /\ connected = s[2]
          /\ client = s[3]
          /\ write_api = s[3]
          /\ libOk = s[4]
    /\ last_write_time = EmptyDict
    /\ last_values = EmptyDict
    /\ publish_mode \in {"all", "changed"}
    /\ reconnect_attempts = 0
    /\ reconnect_delay = initial_reconnect_delay
    /\ last_reconnect_attempt = 0
    /\ writes_total = 0
    /\ writes_failed = 0
    /\ last_successful_write = 0
    /\ reconnect_count = 0
    /\ now = StartTime
    /\ storeUp \in BOOLEAN
    /\ last = NoOp
    /\ submitted = EmptyDict
    /\ sent = EmptyDict
    /\ store_ok = 0
    /\ chain = 0
    /\ thread = [th \in Threads |-> Idle]

Next ==
    \/ \E id \in BatteryIds, data \in BatteryData : write_battery_data(id, data)
    \/ \E data \in PackData : write_pack_data(data)
    \/ close
    \/ \E d \in GateSteps : Tick(d, GateHorizon)
    \/ StoreFlips

Spec == Init /\ [][Next]_vars

\* A long outage: construction left the sink not connected and the store
\* stays down, over a clock long enough for a whole backoff episode.
InitBackoff == Init /\ ~connected /\ ~storeUp

NextBackoff ==
    \/ \E id \in BatteryIds, data \in SingleData : write_battery_data(id, data)
    \/ \E data \in SingleData : write_pack_data(data)
    \/ close
    \/ \E d \in BackoffSteps : Tick(d, BackoffHorizon)

SpecBackoff == InitBackoff /\ [][NextBackoff]_vars

-----------------------------------------------------------------------------
(* Construction, step by step: __init__ and _setup_client_with_retry.  The  *)
(* server may come and go between the attempts.                             *)

\* the doubling without the cap
StartupNextDelay_Uncapped(d) == d * RETRY_BACKOFF_FACTOR

\* line 114
StartupNextDelay(d) == Min(d * RETRY_BACKOFF_FACTOR, RETRY_MAX_DELAY)

\* lines 29-56
InitStartup ==
    /\ enabled \in BOOLEAN
    /\ connected = FALSE
    /\ client = "None"
    /\ write_api = "None"
    /\ last_write_time = EmptyDict
    /\ last_values = EmptyDict
    /\ publish_mode \in {"all", "changed"}
    /\ reconnect_attempts = 0
    /\ reconnect_delay = initial_reconnect_delay
    /\ last_reconnect_attempt = 0
    /\ writes_total = 0
    /\ writes_failed = 0
    /\ last_successful_write = 0
    /\ reconnect_count = 0
    /\ now = BootTime
    /\ storeUp \in BOOLEAN
    /\ libOk \in BOOLEAN
    /\ last = NoOp
    /\ submitted = EmptyDict
    /\ sent = EmptyDict
    /\ store_ok = 0
    /\ chain = 0
    /\ thread = [th \in Threads |-> Idle]
    /\ \E creds \in BOOLEAN :
          boot = [ pc |-> "init", creds |-> creds, attempt |-> 0,
                   delay |-> RETRY_INITIAL_DELAY, slept |-> <<>>, exit |-> "",
                   leaked |-> 0 ]

\* lines 58-59 and 97-99
StartupBegin ==
    /\ boot.pc = "init"
    /\ boot' = IF enabled /\ boot.creds
               THEN [boot EXCEPT !.pc = "attempt", !.attempt = 1,
                                 !.delay = RETRY_INITIAL_DELAY]
               ELSE [boot EXCEPT !.pc = "done", !.exit = "skipped"]
    /\ last' = Did("init")
    /\ UNCHANGED <<progVars, now, storeUp, libOk, submitted, sent, store_ok,
                   chain, thread>>

\* lines 66-68: the client/write_api pair that _setup_client drops by
\* assigning a new pair to the fields while close() was never called on
\* the old one (1 when there is such a pair, else 0)
Orphaned(c, out) ==
    IF out \in {"pass", "health_fail"} /\ c.client = "open" THEN 1 ELSE 0

\* lines 100-108 and 116: one pass of the loop, up to the sleep
StartupAttempt ==
    /\ boot.pc = "attempt"
    /\ \E out \in SetupOutcomes :
          LET c1 == setup_client(Conn, out)
              b1 == [boot EXCEPT !.leaked = @ + Orphaned(Conn, out)]
          IN
          /\ SetConn(c1)
          /\ boot' = IF c1.connected
                     THEN [b1 EXCEPT !.pc = "done", !.exit = "connected"]
                     ELSE IF ~c1.enabled
                     THEN [b1 EXCEPT !.pc = "done", !.exit = "unavailable"]
                     ELSE IF boot.attempt < RETRY_MAX_ATTEMPTS
                     THEN [b1 EXCEPT !.pc = "sleep"]
                     ELSE [b1 EXCEPT !.pc = "done", !.exit = "exhausted"]
    /\ last' = Did("init")
    /\ UNCHANGED <<last_write_time, last_values, publish_mode, writes_total,
                   writes_failed, last_successful_write, now, storeUp, libOk,
                   submitted, sent, store_ok, chain, thread>>

\* lines 113-114, then line 99 for the next pass
StartupSleep ==
    /\ boot.pc = "sleep"
    /\ now' = now + boot.delay
    /\ boot' = [boot EXCEPT !.pc = "attempt", !.attempt = @ + 1,
                            !.delay = StartupNextDelay(@),
                            !.slept = Append(@, boot.delay)]
    /\ last' = Did("init")
    /\ UNCHANGED <<progVars, storeUp, libOk, submitted, sent, store_ok, chain,
                   thread>>

NextStartup ==
    \/ StartupBegin
    \/ StartupAttempt
    \/ StartupSleep
    \/ StoreFlips

SpecStartup == InitStartup /\ [][NextStartup]_vars

\* what construction leaves is a state of Init, up to the clock
ConstructionReturns ==
    boot.pc = "done" =>
        /\ <<enabled, connected, client, libOk>> \in Constructed
        /\ write_api = client
        /\ reconnect_attempts = 0
        /\ reconnect_delay = initial_reconnect_delay
        /\ last_reconnect_attempt = 0

-----------------------------------------------------------------------------
\* An outage that ends: the store is down or up when construction returns,
\* comes back at some time and then stays up, while the producer goes on
\* calling.
NextRecover ==
    \/ \E data \in SingleData : write_pack_data(data)
    \/ close
    \/ \E d \in RecoverSteps : Tick(d, RecoverHorizon)
    \/ StoreRecovers

SpecRecover == Init /\ [][NextRecover]_vars

\* The same with a producer that keeps calling and a clock that keeps
\* advancing (up to RecoverHorizon).
SpecLive ==
    /\ SpecRecover
    /\ WF_vars(\E data \in SingleData : write_pack_data(data))
    /\ WF_vars(\E d \in RecoverSteps : Tick(d, RecoverHorizon))

-----------------------------------------------------------------------------
(* Concurrent producers.  Each thread runs write_battery_data or            *)
(* write_pack_data one block of lines at a time; the blocks of different    *)
(* threads interleave freely, because the only lock of the class is taken   *)
(* inside _should_write (line 179) and nowhere else.                        *)

In(th, pc) == thread[th].pc = pc

Goto(th, pc) == thread' = [thread EXCEPT ![th].pc = pc]

\* the call of thread th returns
Return(th, outcome) ==
    /\ thread' = [thread EXCEPT ![th] = Idle]
    /\ last' = [op |-> "write", key |-> thread[th].key, outcome |-> outcome,
                tried |-> thread[th].tried, reset |-> thread[th].reset]

\* lines 196 / 264: the call starts
Call(th, key, data) ==
    /\ In(th, "idle")
    /\ writes_total < MaxWrites
    /\ thread' = [thread EXCEPT ![th] = [Idle EXCEPT !.pc = "is_enabled",
                                                    !.key = key, !.data = data]]
    /\ last' = NoOp
    /\ submitted' = Note(submitted, key,
                         [nset |-> NumericFields(data), compared |-> FALSE])
    /\ UNCHANGED <<progVars, now, storeUp, libOk, sent, store_ok, chain, boot>>

\* line 169
TestConnected(th) ==
    /\ In(th, "is_enabled")
    /\ Goto(th, IF NeedsReconnect(Conn) THEN "guards" ELSE "result")
    /\ last' = NoOp
    /\ UNCHANGED <<progVars, now, storeUp, libOk, submitted, sent, store_ok,
                   chain, boot>>

\* lines 123-135: the two guards of _try_reconnect and the episode reset
ReconnectGuards(th) ==
    /\ In(th, "guards")
    /\ LET c == Conn IN
       IF ~ReconnectAllowed(c, now)
       THEN /\ Goto(th, "result")
            /\ UNCHANGED <<reconnect_attempts, reconnect_delay>>
       ELSE /\ thread' = [thread EXCEPT ![th].pc = "mark", ![th].rt = now,
                                        ![th].tried = TRUE,
                                        ![th].reset = AttemptsExhausted(c),
                                        ![th].fresh = EpisodeGapElapsed(c, now)]
            /\ reconnect_attempts' =
                  IF AttemptsExhausted(c) THEN 0 ELSE reconnect_attempts
            /\ reconnect_delay' =
                  IF AttemptsExhausted(c) THEN initial_reconnect_delay
                  ELSE reconnect_delay
    /\ last' = NoOp
    /\ UNCHANGED <<enabled, connected, client, write_api, last_write_time,
                   last_values, publish_mode, last_reconnect_attempt,
                   writes_total, writes_failed, last_successful_write,
                   reconnect_count, now, storeUp, libOk, submitted, sent,
                   store_ok, chain, boot>>

\* lines 137-138
ReconnectMark(th) ==
    /\ In(th, "mark")
    /\ last_reconnect_attempt' = thread[th].rt
    /\ reconnect_attempts' = reconnect_attempts + 1
    /\ Goto(th, "setup")
    /\ last' = NoOp
    /\ UNCHANGED <<enabled, connected, client, write_api, last_write_time,
                   last_values, publish_mode, reconnect_delay,
                   writes_total, writes_failed, last_successful_write,
                   reconnect_count, now, storeUp, libOk, submitted, sent,
                   store_ok, chain, boot>>

\* lines 142-165
ReconnectSetup(th) ==
    /\ In(th, "setup")
    /\ \E out \in SetupOutcomes :
          LET c3 == [Conn EXCEPT !.write_api = Closed(@), !.client = Closed(@)]
              c4 == setup_client(c3, out)
          IN  /\ SetConn(IF c4.connected
                         THEN [c4 EXCEPT !.reconnect_count = @ + 1]
                         ELSE [c4 EXCEPT !.reconnect_delay = NextDelay(@)])
              /\ chain' = IF c4.connected THEN 0
                          ELSE IF thread[th].fresh THEN 1 ELSE chain + 1
    /\ Goto(th, "result")
    /\ last' = NoOp
    /\ UNCHANGED <<last_write_time, last_values, publish_mode, writes_total,
                   writes_failed, last_successful_write, now, storeUp, libOk,
                   submitted, sent, store_ok, boot>>

\* lines 171 and 198-199 (266-267)
EnabledResult(th) ==
    /\ In(th, "result")
    /\ IF Usable(Conn)
       THEN Goto(th, "rate") /\ last' = NoOp
       ELSE Return(th, IF enabled THEN "noconn" ELSE "disabled")
    /\ UNCHANGED <<progVars, now, storeUp, libOk, submitted, sent, store_ok,
                   chain, boot>>

\* lines 201-207 (269-275)
RateCheck(th) ==
    /\ In(th, "rate")
    /\ IF RateLimited(thread[th].key, now)
       THEN Return(th, "ratelimited")
       ELSE /\ thread' = [thread EXCEPT ![th].pc = "should", ![th].ct = now]
            /\ last' = NoOp
    /\ UNCHANGED <<progVars, now, storeUp, libOk, submitted, sent, store_ok,
                   chain, boot>>

\* lines 210-212 (278-280); _should_write holds self.lock while it reads
\* and writes last_values
ShouldWrite(th) ==
    /\ In(th, "should")
    /\ LET key == thread[th].key
           wd == NumericFields(thread[th].data)
           sw == should_write(key, wd)
       IN  /\ last_values' = sw.cache
           /\ submitted' = Note(submitted, key, [nset |-> wd, compared |-> TRUE])
           /\ IF sw.ret THEN Goto(th, "stamp") /\ last' = NoOp
              ELSE Return(th, "unchanged")
    /\ UNCHANGED <<enabled, connected, client, write_api, last_write_time,
                   publish_mode, reconnect_attempts, reconnect_delay,
                   last_reconnect_attempt, writes_total, writes_failed,
                   last_successful_write, reconnect_count, now, storeUp,
                   libOk, sent, store_ok, chain, boot>>

\* lines 214-215 (282-283)
Stamp(th) ==
    /\ In(th, "stamp")
    /\ last_write_time' = Put(last_write_time, thread[th].key, thread[th].ct)
    /\ writes_total' = TotalAfter(writes_total)
    /\ Goto(th, "write")
    /\ last' = NoOp
    /\ UNCHANGED <<enabled, connected, client, write_api, last_values,
                   publish_mode, reconnect_attempts, reconnect_delay,
                   last_reconnect_attempt, writes_failed,
                   last_successful_write, reconnect_count, now, storeUp,
                   libOk, submitted, sent, store_ok, chain, boot>>

\* lines 217-262 (285-320)
StoreWrite(th) ==
    /\ In(th, "write")
    /\ \E wok \in BOOLEAN :
          /\ last_successful_write' =
                 SuccessTimeAfter(last_successful_write, thread[th].ct, wok)
          /\ writes_failed' = FailedAfter(writes_failed, wok)
          /\ SetConn(ConnAfterWrite(Conn, wok))
          /\ store_ok' = IF wok THEN store_ok + 1 ELSE store_ok
          /\ Return(th, IF wok THEN "ok" ELSE "fail")
    /\ sent' = Note(sent, thread[th].key, now)
    /\ UNCHANGED <<last_write_time, last_values, publish_mode, writes_total,
                   now, storeUp, libOk, submitted, chain, boot>>

ThreadHorizon == 5      \* SpecThreads: seconds of clock after StartTime

NextThreads ==
    \/ \E th \in Threads, id \in BatteryIds, data \in SingleData :
          Call(th, BatteryKey(id), data)
    \/ \E th \in Threads, data \in SingleData : Call(th, "pack", data)
    \/ \E th \in Threads :
          \/ TestConnected(th)
          \/ ReconnectGuards(th)
          \/ ReconnectMark(th)
          \/ ReconnectSetup(th)
          \/ EnabledResult(th)
          \/ RateCheck(th)
          \/ ShouldWrite(th)
          \/ Stamp(th)
          \/ StoreWrite(th)
    \/ Tick(write_interval, ThreadHorizon)

SpecThreads == Init /\ [][NextThreads]_vars

-----------------------------------------------------------------------------
(* Vocabulary of the properties.  A step is a write call when last' records *)
(* one; its outcome says where the call returned:                           *)
(*   "disabled"    is_enabled false, self.enabled false                      *)
(*   "noconn"      is_enabled false, not connected after is_enabled          *)
(*   "ratelimited" returned at line 207 (275)                                *)
(*   "unchanged"   returned at line 212 (280)                                *)
(*   "ok", "fail"  write_api.write was called and returned / raised          *)

IsWrite(l) == l.op = "write"
AtGate(l) == IsWrite(l) /\ l.outcome \in {"ratelimited", "unchanged", "ok", "fail"}
Forwarded(l) == IsWrite(l) /\ l.outcome \in {"ok", "fail"}

\* the call made a reconnect attempt and it succeeded (is_enabled returned True)
Reconnected(l) == AtGate(l) /\ l.tried

\* the call recorded by last' arrived inside the rate-limit window of its key
InWindow(k) ==
    k \in DOMAIN last_write_time /\ now' - last_write_time[k] < write_interval

SameEntry(d, e, k) ==
    /\ (k \in DOMAIN d) = (k \in DOMAIN e)
    /\ k \in DOMAIN d => d[k] = e[k]

-----------------------------------------------------------------------------
\* C1: per-key rate limit, in both publish modes.  A write call for key k
\* that arrives less than write_interval after last_write_time[k] is not
\* forwarded to the store, and every call to write_api.write for k comes at
\* least write_interval after the previous call to write_api.write for k.
C1_RateLimit ==
    [][ IsWrite(last') =>
          LET k == last'.key IN
          /\ InWindow(k) => ~Forwarded(last')
          /\ (Forwarded(last') /\ k \in DOMAIN sent)
                => now' - sent[k] >= write_interval ]_vars

\* a call in "all" mode was turned away by the rate limit
C1_Witness ==
    /\ publish_mode = "all"
    /\ IsWrite(last) /\ last.outcome = "ratelimited"
    /\ now - last_write_time[last.key] = write_interval - 1

-----------------------------------------------------------------------------
\* C2 as claimed: in "changed" mode, when the numeric set a write call
\* submits for k is identical to the numeric set the previous write call
\* submitted for k, the call is not forwarded.
C2_Original ==
    [][ (IsWrite(last') /\ publish_mode = "changed"
           /\ last'.key \in DOMAIN submitted
           /\ submitted[last'.key].nset = submitted'[last'.key].nset)
          => ~Forwarded(last') ]_vars

\* C2 amended: in "changed" mode, when the numeric set a write call submits
\* for k is identical to the set the previous write call submitted for k,
\* and that previous call got as far as the comparison of _should_write
\* (it was forwarded or rejected as unchanged, not dropped by the rate limit
\* or for lack of a connection), the call is not forwarded, also when the
\* rate-limit interval has elapsed.
C2_UnchangedRejected ==
    [][ (IsWrite(last') /\ publish_mode = "changed"
           /\ last'.key \in DOMAIN submitted
           /\ submitted[last'.key].compared
           /\ submitted[last'.key].nset = submitted'[last'.key].nset)
          => ~Forwarded(last') ]_vars

\* a call was rejected as unchanged although the interval had elapsed
C2_Witness ==
    /\ publish_mode = "changed"
    /\ IsWrite(last) /\ last.outcome = "unchanged"
    /\ now - last_write_time[last.key] >= write_interval
    /\ submitted[last.key].nset = last_values[last.key]

-----------------------------------------------------------------------------
\* C3: in "changed" mode, a call that reaches the gate for a key k with a
\* last_values entry, outside the rate-limit window, whose numeric set has a
\* field with a changed value or a field the entry lacks, is forwarded and
\* last_values[k] becomes exactly the numeric set of the call.
C3_ChangedAccepted ==
    [][ (AtGate(last') /\ publish_mode = "changed"
           /\ last'.key \in DOMAIN last_values
           /\ ~InWindow(last'.key)
           /\ LET old == last_values[last'.key]
                  new == submitted'[last'.key].nset
              IN  \E f \in DOMAIN new : f \notin DOMAIN old \/ old[f] # new[f])
          => /\ Forwarded(last')
             /\ last_values'[last'.key] = submitted'[last'.key].nset ]_vars

\* a field was added to an entry that had none of it, and the call was forwarded
C3_Witness ==
    /\ publish_mode = "changed"
    /\ Forwarded(last) /\ writes_total = 2
    /\ last.key = "battery_1"
    /\ "pack" \notin DOMAIN last_write_time
    /\ last_values["battery_1"] = [x \in {"soc", "cycles"} |-> IF x = "soc" THEN 80 ELSE 7]

-----------------------------------------------------------------------------
\* C4 as claimed: in "changed" mode, a call that reaches the gate outside the
\* rate-limit window with a numeric set that only lacks fields of
\* last_values[k] (the fields it has are unchanged) is forwarded and
\* last_values[k] becomes the numeric set of the call.
C4_RemovedFieldAccepted ==
    [][ (AtGate(last') /\ publish_mode = "changed"
           /\ last'.key \in DOMAIN last_values
           /\ ~InWindow(last'.key)
           /\ LET old == last_values[last'.key]
                  new == submitted'[last'.key].nset
              IN  /\ DOMAIN new \subseteq DOMAIN old
                  /\ DOMAIN new # DOMAIN old
                  /\ \A f \in DOMAIN new : old[f] = new[f])
          => /\ Forwarded(last')
             /\ last_values'[last'.key] = submitted'[last'.key].nset ]_vars

-----------------------------------------------------------------------------
\* C5: a write call for key A leaves last_write_time[B] and last_values[B]
\* as they were for every other key B, and the decision of the gate (rate
\* limit, then _should_write) on any measurement set for B at any time is
\* the same after the call as before it.
GateAccepts(k, data, t) ==
    ~RateLimited(k, t) /\ should_write(k, NumericFields(data)).ret

C5_KeysIndependent ==
    [][ IsWrite(last') =>
          \A B \in Keys \ {last'.key} :
             /\ SameEntry(last_write_time, last_write_time', B)
             /\ SameEntry(last_values, last_values', B)
             /\ \A data \in BatteryData, t \in {now, now + write_interval} :
                   GateAccepts(B, data, t) = GateAccepts(B, data, t)' ]_vars

\* key A was written while key B sits in its rate-limit window
C5_Witness ==
    /\ publish_mode = "changed"
    /\ Forwarded(last) /\ last.key = "pack"
    /\ "battery_1" \in DOMAIN last_values
    /\ RateLimited("battery_1", now)
    /\ last_write_time["pack"] # last_write_time["battery_1"]

-----------------------------------------------------------------------------
\* C6: in "all" mode, a call that reaches the gate for a key never written,
\* or at least write_interval after last_write_time[k], is forwarded,
\* whatever its values and whatever last_values holds.
C6_AllModeAccepts ==
    [][ (AtGate(last') /\ publish_mode = "all" /\ ~InWindow(last'.key))
          => Forwarded(last') ]_vars

\* the same pack values were forwarded twice in "all" mode
C6_Witness ==
    /\ publish_mode = "all"
    /\ Forwarded(last) /\ last.key = "pack"
    /\ writes_total = 2
    /\ "battery_1" \notin DOMAIN last_write_time

-----------------------------------------------------------------------------
\* C7: a disabled sink (self.enabled false: the import failed at startup or
\* in a reconnect attempt) is never connected and stays disabled, and a
\* write call on it makes no reconnect attempt and no store write and
\* leaves every field of the object as it was.
C7_DisabledInert ==
    [][ /\ ~enabled => ~connected
        /\ ~enabled' => ~connected'
        /\ ~enabled =>
             /\ ~enabled'
             /\ IsWrite(last') =>
                  /\ last'.outcome = "disabled" /\ ~last'.tried
                  /\ UNCHANGED <<progVars, sent, store_ok>> ]_vars

\* the import failed in a reconnect attempt and a later write call returned
\* at is_enabled
C7_Witness ==
    /\ ~enabled /\ ~connected
    /\ last_reconnect_attempt > 0
    /\ IsWrite(last) /\ last.outcome = "disabled"

-----------------------------------------------------------------------------
\* C8 as claimed: a write call whose reconnect attempt fails, or whose store
\* write raises, increments writes_failed by one and leaves the sink not
\* connected.
C8_Original ==
    [][ (IsWrite(last') /\ (last'.outcome = "fail"
                             \/ (last'.outcome = "noconn" /\ last'.tried)))
          => /\ writes_failed' = writes_failed + 1
             /\ ~connected' ]_vars

\* C8 amended: a write call whose store write raises increments
\* writes_failed by one and leaves the sink not connected; a write call
\* that returns because the sink is not connected (its reconnect attempt
\* failed or was not allowed) leaves writes_failed as it was and the sink
\* not connected.
C8_FailureAccounting ==
    [][ IsWrite(last') =>
          /\ last'.outcome = "fail" =>
                writes_failed' = writes_failed + 1 /\ ~connected'
          /\ last'.outcome = "noconn" =>
                writes_failed' = writes_failed /\ ~connected' ]_vars

\* a store write raised, and a later call made a reconnect attempt that failed
C8_Witness ==
    /\ IsWrite(last) /\ last.outcome = "noconn" /\ last.tried
    /\ writes_failed = 1 /\ ~connected

-----------------------------------------------------------------------------
\* C9 as claimed: writes_total equals the number of store writes that
\* succeeded.
C9_Original == writes_total = store_ok

\* C9 amended: writes_total is incremented exactly when a store write is
\* attempted, whether it succeeds or raises, and last_successful_write is
\* set exactly when it succeeds: writes_total - writes_failed equals the
\* number of successful store writes, and a call whose store write raises
\* increments writes_total and leaves last_successful_write as it was.
C9_WriteAccounting ==
    [][ /\ writes_total' - writes_failed' = store_ok'
        /\ writes_total' = IF Forwarded(last') THEN writes_total + 1 ELSE writes_total
        /\ last_successful_write' =
              IF IsWrite(last') /\ last'.outcome = "ok" THEN now'
              ELSE last_successful_write ]_vars

\* a store write succeeded, and a later one raised
C9_Witness ==
    /\ IsWrite(last) /\ last.outcome = "fail"
    /\ writes_total = 2 /\ store_ok = 1
    /\ last_successful_write \notin {0, now}

-----------------------------------------------------------------------------
\* C10: no more than max_reconnect_attempts reconnect attempts are made in
\* a row without a successful connection and with each attempt at most
\* max_reconnect_delay after the one before; an attempt made with the
\* counter at its maximum comes more than max_reconnect_delay after the
\* previous one and starts from counter 0 and the initial delay (so it
\* leaves counter 1 and twice the initial delay when it fails).
C10_AttemptCap ==
    [][ /\ chain' <= max_reconnect_attempts
        /\ (IsWrite(last') /\ last'.tried
              /\ reconnect_attempts >= max_reconnect_attempts)
             => /\ now' - last_reconnect_attempt > max_reconnect_delay
                /\ \/ /\ connected'
                      /\ reconnect_attempts' = 0
                      /\ reconnect_delay' = initial_reconnect_delay
                   \/ /\ ~connected'
                      /\ reconnect_attempts' = 1
                      /\ reconnect_delay' = 2 * initial_reconnect_delay ]_vars

\* ten attempts failed, then a call after the gap reset the episode
C10_Witness ==
    /\ IsWrite(last) /\ last.tried /\ last.reset
    /\ chain = 1 /\ reconnect_attempts = 1

-----------------------------------------------------------------------------
\* C11: reconnect_delay always lies between the initial delay (5) and
\* max_reconnect_delay (300); a reconnect attempt that fails inside an
\* episode (one that did not start from the reset of lines 131-133) leaves
\* the delay at min(2 * delay, max_reconnect_delay), so not lower than it
\* was; a call that makes no attempt leaves the delay as it was.
C11_DelayBounds ==
    [][ /\ reconnect_delay >= 5 /\ reconnect_delay <= 300
        /\ reconnect_delay' >= 5 /\ reconnect_delay' <= 300
        /\ (IsWrite(last') /\ last'.tried /\ ~last'.reset /\ ~AtGate(last'))
             => /\ reconnect_delay' =
                      IF 2 * reconnect_delay < 300 THEN 2 * reconnect_delay ELSE 300
                /\ reconnect_delay' >= reconnect_delay
        /\ (IsWrite(last') /\ ~last'.tried)
             => reconnect_delay' = reconnect_delay ]_vars

\* the seventh failed attempt of an episode: the delay was at the ceiling
\* and stayed there
C11_Witness ==
    /\ IsWrite(last) /\ last.tried /\ ~last.reset
    /\ reconnect_attempts = 7
    /\ reconnect_delay = max_reconnect_delay

-----------------------------------------------------------------------------
\* C12: whenever the sink is connected, reconnect_attempts is 0 and
\* reconnect_delay is the initial delay (5); a write call whose reconnect
\* attempt succeeds leaves reconnect_attempts 0 and reconnect_delay 5
\* (also when its store write then raises) and adds exactly one to
\* reconnect_count; no other step changes reconnect_count.
C12_ResetOnSuccess ==
    [][ /\ connected => (reconnect_attempts = 0 /\ reconnect_delay = 5)
        /\ connected' => (reconnect_attempts' = 0 /\ reconnect_delay' = 5)
        /\ Reconnected(last')
             => /\ reconnect_attempts' = 0 /\ reconnect_delay' = 5
                /\ reconnect_count' = reconnect_count + 1
        /\ ~Reconnected(last') => reconnect_count' = reconnect_count ]_vars

\* ten attempts failed, the store came back, and the attempt after the gap
\* connected
C12_Witness ==
    /\ Reconnected(last) /\ last.reset
    /\ reconnect_attempts = 0 /\ reconnect_delay = initial_reconnect_delay
    /\ reconnect_count = 1

-----------------------------------------------------------------------------
\* C13: no permanent wedge.  From every state in which the sink is enabled
\* and not connected (after a failed startup, a failed write, close, or with
\* the attempt counter at its maximum), once the store is reachable and
\* stays so, the library loads, the producer keeps calling and the clock
\* has room for two more waits of max_reconnect_delay, a reconnect attempt
\* succeeds: the sink is connected, or was connected by the call whose
\* store write then raised.
RecoverWait == 2 * max_reconnect_delay

C13_NoWedge ==
    (/\ enabled /\ ~connected /\ storeUp /\ libOk
     /\ writes_total < MaxWrites
     /\ now + RecoverWait <= StartTime + RecoverHorizon)
       ~> (connected \/ Reconnected(last))

\* the store came back while the attempt counter sat at its maximum, and
\* the first call after the gap connected and delivered
C13_Witness ==
    /\ connected /\ storeUp
    /\ IsWrite(last) /\ last.reset /\ last.outcome = "ok"
    /\ writes_total = 1 /\ last_successful_write = now

-----------------------------------------------------------------------------
\* C14: startup policy.  Construction makes at most 10 attempts; while it
\* is still trying, every attempt so far failed; the sleeps made are the
\* first attempts-1 terms of 2,4,8,16,32,60,60,60,60 (one between each two
\* attempts, none after the last) and the clock has advanced by their sum;
\* construction returns at the first attempt that connects (connected),
\* at the first import failure (disabled), or after the tenth failed
\* attempt, and then the sink is enabled and not connected.
StartupDelays == <<2, 4, 8, 16, 32, 60, 60, 60, 60>>

RECURSIVE SumSeq(_)
SumSeq(q) == IF q = <<>> THEN 0 ELSE q[1] + SumSeq(Tail(q))

C14_StartupPolicy ==
    /\ boot.attempt <= 10
    /\ Len(boot.slept) <= Len(StartupDelays)
    /\ boot.slept = SubSeq(StartupDelays, 1, Len(boot.slept))
    /\ now = BootTime + SumSeq(boot.slept)
    /\ boot.attempt >= 1 => Len(boot.slept) = boot.attempt - 1
    /\ boot.pc = "attempt" => (enabled /\ ~connected)
    /\ boot.pc = "sleep" => (enabled /\ ~connected /\ boot.attempt < 10)
    /\ boot.pc = "done" =>
          /\ boot.exit \in {"skipped", "connected", "unavailable", "exhausted"}
          /\ boot.exit = "skipped" => (boot.attempt = 0 /\ ~connected)
          /\ boot.exit = "connected" => (enabled /\ connected)
          /\ boot.exit = "unavailable" => (~enabled /\ ~connected)
          /\ boot.exit = "exhausted" =>
                (boot.attempt = 10 /\ enabled /\ ~connected)

\* ten attempts failed: nine sleeps, 302 s in all, enabled and not connected
C14_Witness ==
    /\ boot.pc = "done" /\ boot.exit = "exhausted"
    /\ boot.slept = StartupDelays
    /\ now = BootTime + 302
    /\ enabled /\ ~connected

-----------------------------------------------------------------------------
\* C15 as claimed: with producer threads calling concurrently, every call
\* of write_api.write for a key comes at least write_interval after the
\* previous call of write_api.write for that key, in both publish modes.
C15_AtomicRateLimit ==
    [][ (Forwarded(last') /\ last'.key \in DOMAIN sent)
          => now' - sent[last'.key] >= write_interval ]_vars

-----------------------------------------------------------------------------
\* C16 as claimed: with producer threads calling concurrently on a sink that
\* is not connected, at most one thread at a time is past the guards of
\* _try_reconnect and not yet out of it, and reconnect_attempts never
\* exceeds max_reconnect_attempts.
InReconnect(th) == thread[th].pc \in {"mark", "setup"}

C16_ReconnectExclusive ==
    /\ \A a, b \in Threads : (InReconnect(a) /\ InReconnect(b)) => a = b
    /\ reconnect_attempts <= max_reconnect_attempts

-----------------------------------------------------------------------------
\* C17 as claimed: writes_total, writes_failed, reconnect_attempts and
\* reconnect_count, as get_stats reports them, never decrease.
C17_Original ==
    [][ /\ get_stats'.writes_total >= get_stats.writes_total
        /\ get_stats'.writes_failed >= get_stats.writes_failed
        /\ get_stats'.reconnect_attempts >= get_stats.reconnect_attempts
        /\ get_stats'.reconnect_count >= get_stats.reconnect_count ]_vars

\* C17 amended: writes_total, writes_failed and reconnect_count, as
\* get_stats reports them, never decrease; reconnect_attempts is the
\* counter of the current backoff episode and decreases only in a write
\* call whose reconnect attempt succeeds (to 0) or starts a new episode
\* after the counter reached its maximum (to 1).
C17_CountersMonotonic ==
    [][ /\ get_stats'.writes_total >= get_stats.writes_total
        /\ get_stats'.writes_failed >= get_stats.writes_failed
        /\ get_stats'.reconnect_count >= get_stats.reconnect_count
        /\ get_stats'.reconnect_attempts < get_stats.reconnect_attempts
             => \/ Reconnected(last') /\ get_stats'.reconnect_attempts = 0
                \/ /\ IsWrite(last') /\ last'.reset
                   /\ get_stats'.reconnect_attempts = 1 ]_vars

\* two store writes, one of them failed, and two reconnects, the second
\* of which took the attempt counter back to 0
C17_Witness ==
    /\ Reconnected(last)
    /\ writes_total = 2 /\ writes_failed >= 1
    /\ reconnect_count = 2 /\ reconnect_attempts = 0

-----------------------------------------------------------------------------
\* C18: close is idempotent.  Every close leaves the sink not connected and
\* changes nothing but connected and the two handles it closes; and the
\* state it leaves is one that a further close does not change.
C18_CloseIdempotent ==
    [][ last'.op = "close" =>
          /\ ~connected'
          /\ ~get_stats'.connected
          /\ UNCHANGED <<enabled, last_write_time, last_values, publish_mode,
                         reconnect_attempts, reconnect_delay,
                         last_reconnect_attempt, writes_total, writes_failed,
                         last_successful_write, reconnect_count>>
          /\ close_conn(Conn)' = Conn' ]_vars

\* a connected sink that had written was closed
C18_Witness ==
    /\ last.op = "close"
    /\ ~connected /\ client = "closed" /\ write_api = "closed"
    /\ writes_total >= 1 /\ store_ok >= 1

-----------------------------------------------------------------------------
-----------------------------------------------------------------------------
\* C20: last_write_time[k] is set to the time of the call exactly by the
\* write calls for k that reach write_api.write, whether it returns or
\* raises; every other call and step leaves last_write_time as it was, and
\* a call turned away by the rate limit (or before the gate) leaves
\* last_values as it was.  So a call for k less than write_interval after
\* a store write for k, failed or not, is not forwarded.
C20_StampOnAttempt ==
    [][ /\ Forwarded(last') =>
             /\ last'.key \in DOMAIN last_write_time'
             /\ last_write_time'[last'.key] = now'
             /\ \A B \in Keys \ {last'.key} :
                    SameEntry(last_write_time, last_write_time', B)
        /\ ~Forwarded(last') => last_write_time' = last_write_time
        /\ (IsWrite(last') /\ last'.outcome \in {"ratelimited", "noconn", "disabled"})
             => last_values' = last_values
        /\ (IsWrite(last') /\ last'.key \in DOMAIN sent
               /\ now' - sent[last'.key] < write_interval)
             => ~Forwarded(last') ]_vars

\* a store write raised, and the next call for the key, four seconds later,
\* reconnected and was turned away by the rate limit
C20_Witness ==
    /\ IsWrite(last) /\ last.outcome = "ratelimited"
    /\ writes_total = 1 /\ writes_failed = 1
    /\ sent[last.key] = last_write_time[last.key]
    /\ now - sent[last.key] = write_interval - 1

-----------------------------------------------------------------------------
\* C21: a write call whose store write raises returns with the sink not
\* connected, after exactly one call of write_api.write (writes_total and
\* writes_failed each one more, nothing delivered); when the sink was
\* connected at the start of the call, reconnect_attempts, reconnect_delay
\* and last_reconnect_attempt are as they were, and when the call itself
\* had reconnected they are as the reconnect left them (0, the initial
\* delay, the time of the call).
C21_WriteFailureDisconnects ==
    [][ (IsWrite(last') /\ last'.outcome = "fail") =>
          /\ ~connected'
          /\ writes_total' = writes_total + 1
          /\ writes_failed' = writes_failed + 1
          /\ store_ok' = store_ok
          /\ connected =>
                UNCHANGED <<reconnect_attempts, reconnect_delay,
                            last_reconnect_attempt, reconnect_count>>
          /\ ~connected =>
                /\ reconnect_attempts' = 0
                /\ reconnect_delay' = 5
                /\ last_reconnect_attempt' = now' ]_vars

\* the first write of a sink connected since construction raised
C21_Witness ==
    /\ IsWrite(last) /\ last.outcome = "fail" /\ ~last.tried
    /\ ~connected /\ enabled
    /\ writes_failed = 1
    /\ reconnect_attempts = 0 /\ last_reconnect_attempt = 0
    /\ reconnect_delay = initial_reconnect_delay

-----------------------------------------------------------------------------
\* C22 as claimed: a connection attempt that creates a new client/write_api
\* pair finds the pair of the previous attempt closed, at startup as in
\* steady state: no pair is ever dropped without close() having been called
\* on it, and at most one pair on which close() was not called exists.
Unreleased == boot.leaked + (IF client = "open" THEN 1 ELSE 0)

C22_HandlesReleased ==
    /\ boot.leaked = 0
    /\ Unreleased <= 1

-----------------------------------------------------------------------------
\* C23 as claimed: a reconnect attempt that follows an earlier one starts
\* more than reconnect_delay (the delay the earlier attempt left) after it.
C23_Original ==
    [][ (IsWrite(last') /\ last'.tried /\ last_reconnect_attempt > 0)
          => now' - last_reconnect_attempt > reconnect_delay ]_vars

\* C23 amended: a reconnect attempt that follows an earlier one starts at
\* least reconnect_delay (the delay the earlier attempt left) after it, so
\* never less than the initial delay (5) after it; equality is enough.  An
\* attempt made with the counter at its maximum starts more than
\* max_reconnect_delay after the earlier one.
C23_BackoffRespected ==
    [][ (IsWrite(last') /\ last'.tried /\ last_reconnect_attempt > 0)
          => /\ now' - last_reconnect_attempt >= reconnect_delay
             /\ now' - last_reconnect_attempt >= 5
             /\ last'.reset => now' - last_reconnect_attempt > 300 ]_vars

\* the seventh attempt of an outage at the earliest time it can come:
\* exactly 300 s after the sixth, which had left the delay at 300
C23_Witness ==
    /\ IsWrite(last) /\ last.tried /\ ~last.reset
    /\ reconnect_attempts = 7
    /\ last_reconnect_attempt = StartTime + 4 * 150 + 300 + 300
    /\ now = last_reconnect_attempt

-----------------------------------------------------------------------------
\* C24: in "changed" mode a call that goes on to the store write leaves
\* last_values[k] equal to its numeric set whether the write returns or
\* raises; and a call that reaches the gate with the numeric set that
\* last_values[k] already holds, delivered or not, is not forwarded and
\* changes neither the cache nor the count of delivered writes, also after
\* the interval and after a reconnect.
C24_CacheBeforeWrite ==
    [][ (IsWrite(last') /\ publish_mode = "changed") =>
          LET k == last'.key
              new == submitted'[k].nset
          IN  /\ Forwarded(last') =>
                    (k \in DOMAIN last_values' /\ last_values'[k] = new)
              /\ (AtGate(last') /\ k \in DOMAIN last_values
                     /\ last_values[k] = new)
                   => /\ ~Forwarded(last')
                      /\ store_ok' = store_ok
                      /\ last_values' = last_values ]_vars

\* the only store write raised; the same values came again after the
\* interval, the call reconnected and was rejected as unchanged: nothing
\* was ever delivered
C24_Witness ==
    /\ publish_mode = "changed"
    /\ IsWrite(last) /\ last.outcome = "unchanged" /\ last.tried
    /\ writes_total = 1 /\ writes_failed = 1 /\ store_ok = 0
    /\ now - last_write_time[last.key] >= write_interval
    /\ last_values[last.key] = submitted[last.key].nset
    /\ DOMAIN last_values[last.key] # {}

====
